---- MODULE Spec2Model ----
(***************************************************************************)
(* A model of alpp (src/AL.hpp, src/AL.cpp): move-only owning wrappers     *)
(* (Buffer, Source, Filter, Effect, AuxiliaryEffectsSlot, Device, Context) *)
(* over the handles of a native audio driver, the error check made after   *)
(* driver calls, and the Format helpers.                                   *)
(*                                                                         *)
(* The driver is the environment.  It hands out names (handles) that are   *)
(* not in use at the moment of the call, so the name of a deleted resource *)
(* may be handed out again; a generate or open call may fail; a call that  *)
(* names no live resource records an error.                                *)
(***************************************************************************)
EXTENDS Integers, Sequences, FiniteSets, TLC

\* ------------------------------------------------------------------ bounds

\* Wrapper objects of the class under test that exist side by side.
NObj == 2
\* Names the driver can hand out per kind of resource (0 is the null handle).
MaxHandle == 2
\* delCalls counts up to this value ("MaxCount or more").
MaxCount == 2

\* Context objects that exist side by side.
NCtx == 2
\* Channel counts 0..MaxChannels are passed to MultiChannelFormat.
MaxChannels == 3
\* Parameter values 0..MaxValue are written to effects and filters.
MaxValue == 1
\* The program keeps at most MaxQueue buffers queued on the source.
MaxQueue == 3
\* Word widths, scaled down: size_t has SizeWidth bits, int has IntWidth
\* bits (two's complement), int being the narrower type as on LP64.
SizeWidth == 3
IntWidth == 2
\* Attribute values 0..MaxAttr are added to an Options, at most MaxAdded of
\* them, at most MaxList in one add() call.
MaxAttr == 2
MaxAdded == 3
MaxList == 2

Objs == 1..NObj
Ctxs == 1..NCtx
Names == 1..MaxHandle
Handles == 0..MaxHandle

Min(a, b) == IF a < b THEN a ELSE b

\* ------------------------------------------------------------------- state

VARIABLES
    checking,    \* AL_ERROR_CHECKING is defined (a build without NDEBUG)
    terminated,  \* an exception left a noexcept function: std::terminate
    alError,     \* the driver's AL last-error code
    alcError,    \* alcError[d]: the ALC last-error code of open device d;
                 \* alcError[0]: the one kept for no (or no valid) device
    cls,         \* the wrapper class the objects of this run belong to
    alive,       \* alive[o]: object o is within its lifetime
    mHandle,     \* mHandle[o] (mDeviceHandle for a Device)
    live,        \* the driver's live names of the kind cls wraps
    delCalls,    \* delCalls[n]: delete (close) calls naming n since n was
                 \* last generated (opened)
    lastOp,      \* the operation the last step performed
    ctxAlive,    \* ctxAlive[c]: Context object c is within its lifetime
    mContext,    \* mContext[c]
    optDevice,   \* the handle of Options::device in the caller's Options
    ctxDevice,   \* driver: the device of live context n, 0 when n is not live
    current,     \* driver: the current context, 0 for none
    destroyCalls,\* destroyCalls[n]: alcDestroyContext calls naming n since
                 \* n was last created
    owned,       \* owned[c]: the devices init() of Context c opened or took
                 \* over from Options and that have not been closed since
    opResult,    \* how the last wrapped operation called by name ended
    fmtArgs,     \* the arguments of the next Format helper call
    fmtRes,      \* the last Format helper call and what it produced
    fmtFrom,     \* the Format helper call whose results fmtArgs were taken
                 \* from, if any
    efxLive,     \* driver: efxLive[k], the live names of EFX kind k
    efxValue,    \* driver: efxValue[k][n], the integer (i) and the float (f)
                 \* parameter of object n of kind k
    efxCall,     \* the last call made through an EFX view, and its result
    srcQueue,    \* driver: the buffer queue of the source, oldest first
    srcProcessed,\* driver: how many buffers at the head of the queue are
                 \* processed
    srcState,    \* driver: AL_SOURCE_STATE of the source
    srcPending,  \* the buffers queued through the view and not yet returned
                 \* by an unqueue call, in the order they were queued
    queueCall,   \* the last queue call made through the SourceView
    srcOffset,   \* driver: AL_SAMPLE_OFFSET and AL_BYTE_OFFSET of the source
    offsetSet,   \* the value last given to sample_offset(v) and byte_offset(v)
    offsetCall,  \* the last offset call made through the SourceView
    options,     \* Options::options, the attribute vector of an Options
    optAdded,    \* the values passed to add() since the Options was
                 \* constructed, in order
    optMoved,    \* the Options has been moved from
    viewAlive,   \* the view object is within its lifetime
    viewHandle   \* mHandle (mDeviceHandle) of the view object

wrapVars == <<cls, alive, mHandle, live, delCalls, lastOp>>
ctxVars == <<ctxAlive, mContext, optDevice, ctxDevice, current, destroyCalls,
             owned>>
fmtVars == <<fmtArgs, fmtRes, fmtFrom>>
efxVars == <<efxLive, efxValue, efxCall>>
queueVars == <<srcQueue, srcProcessed, srcState, srcPending, queueCall>>
offsetVars == <<srcOffset, offsetSet, offsetCall>>
optVars == <<options, optAdded, optMoved>>
viewVars == <<viewAlive, viewHandle>>
extVars == <<efxVars, queueVars, offsetVars, optVars, viewVars>>
vars == <<checking, terminated, alError, alcError, wrapVars, ctxVars, opResult,
          fmtVars, extVars>>

ALClasses == {"Buffer", "Source", "Filter", "Effect", "AuxiliaryEffectsSlot"}
\* Classes that declare a move constructor and a move assignment.
Movable == {"Buffer", "Source", "Device"}
Classes == ALClasses \cup {"Device"}

ALErrors == {"AL_INVALID_NAME", "AL_INVALID_ENUM", "AL_INVALID_VALUE",
             "AL_INVALID_OPERATION", "AL_OUT_OF_MEMORY"}

\* ------------------------------------------------------------ error check

\* The driver records an error; the first error stays until it is read.
SetError(s, e) ==
    IF e # "AL_NO_ERROR" /\ s.err = "AL_NO_ERROR" THEN [s EXCEPT !.err = e] ELSE s

\* alCheckError: reads (and so clears) the last error; a listed code other
\* than AL_NO_ERROR throws.  The result names the code thrown, or "none".
alCheckErrorThrows(err) ==
    IF err # "AL_NO_ERROR"
    THEN CASE err = "AL_NO_ERROR"          -> "AL_NO_ERROR"
           [] err = "AL_INVALID_NAME"      -> "AL_INVALID_NAME"
           [] err = "AL_INVALID_ENUM"      -> "AL_INVALID_ENUM"
           [] err = "AL_INVALID_VALUE"     -> "AL_INVALID_VALUE"
           [] err = "AL_INVALID_OPERATION" -> "AL_INVALID_OPERATION"
           [] err = "AL_OUT_OF_MEMORY"     -> "AL_OUT_OF_MEMORY"
           [] OTHER                        -> "none"
    ELSE "none"

\* AL_CHECK_ERROR() inside a noexcept member function: nothing when
\* AL_ERROR_CHECKING is not defined; otherwise alCheckError, whose exception
\* cannot leave the noexcept function and ends the program.
AL_CHECK_ERROR(s) ==
    IF ~checking THEN s
    ELSE LET thrown == alCheckErrorThrows(s.err)
         IN  [s EXCEPT !.err = "AL_NO_ERROR",
                       !.term = (thrown # "none")]

\* ------------------------------------------------------------ driver calls

\* alDelete*(1, &n): a live name is deleted; any other name is an error.
alDelete(s, n) ==
    LET s1 == [s EXCEPT !.dels[n] = Min(@ + 1, MaxCount)]
    IN  IF n \in s.live THEN [s1 EXCEPT !.live = @ \ {n}]
        ELSE SetError(s1, "AL_INVALID_NAME")

\* alGen*(1, &mHandle) of object o: the driver stores the name n it chose,
\* or (n = 0) fails and leaves the handle as it was.
alGen(s, o, n) ==
    IF n = 0 THEN SetError(s, "AL_OUT_OF_MEMORY")
    ELSE [s EXCEPT !.live = @ \cup {n}, !.dels[n] = 0, !.h[o] = n]

\* What a generate call may answer in state s.
GenAnswers(s) == {0} \cup (Names \ s.live)

\* A property call on name n (alBufferData, alSourcei): an error for a name
\* that is not live, else the outcome e the arguments produce.
alProperty(s, n, e) ==
    IF n \in s.live THEN SetError(s, e) ELSE SetError(s, "AL_INVALID_NAME")

\* The driver records an ALC error on device d, or on no device (0) when d
\* is not an open device.
alcSetError(s, d, e) ==
    [s EXCEPT !.alcErr[IF d \in s.live THEN d ELSE 0] = e]

\* alcCloseDevice(n): closes an open device that holds no context; the
\* driver rejects any other handle.
alcCloseDevice(s, n) ==
    IF n = 0 THEN alcSetError(s, 0, "ALC_INVALID_DEVICE")
    ELSE LET s1 == [s EXCEPT !.dels[n] = Min(@ + 1, MaxCount)]
         IN  IF n \in s.live /\ \A k \in Names : s.ctxDev[k] # n
             THEN [s1 EXCEPT !.live = @ \ {n}, !.alcErr[n] = "ALC_NO_ERROR",
                             !.owned = [c \in Ctxs |-> @[c] \ {n}]]
             ELSE alcSetError(s1, n, "ALC_INVALID_DEVICE")

\* alcOpenDevice(name): the handle n of a newly opened device, or (n = 0)
\* NULL with an error recorded on no device.
alcOpenDevice(s, n) ==
    IF n = 0 THEN alcSetError(s, 0, "ALC_INVALID_VALUE")
    ELSE [s EXCEPT !.live = @ \cup {n}, !.dels[n] = 0]

\* alcCheckError: reads (and so clears) the last error of the device, or
\* the one kept for no device; a listed code other than ALC_NO_ERROR throws.
alcCheckErrorThrows(err) ==
    IF err # "ALC_NO_ERROR"
    THEN CASE err = "ALC_NO_ERROR"        -> "ALC_NO_ERROR"
           [] err = "ALC_INVALID_DEVICE"  -> "ALC_INVALID_DEVICE"
           [] err = "ALC_INVALID_CONTEXT" -> "ALC_INVALID_CONTEXT"
           [] err = "ALC_INVALID_ENUM"    -> "ALC_INVALID_ENUM"
           [] err = "ALC_INVALID_VALUE"   -> "ALC_INVALID_VALUE"
           [] err = "ALC_OUT_OF_MEMORY"   -> "ALC_OUT_OF_MEMORY"
           [] OTHER                       -> "none"
    ELSE "none"

\* ALC_CHECK_ERROR(device) inside a noexcept member function.
ALC_CHECK_ERROR(s, device) ==
    IF ~checking THEN s
    ELSE LET k == IF device \in s.live THEN device ELSE 0
             thrown == alcCheckErrorThrows(s.alcErr[k])
         IN  [s EXCEPT !.alcErr[k] = "ALC_NO_ERROR",
                       !.term = (thrown # "none")]

\* Context n is live in the driver.
ctxLive(s, n) == n # 0 /\ s.ctxDev[n] # 0

\* alcGetContextsDevice(n): the device of a live context, else NULL and an
\* error.
alcGetContextsDevice(s, n) == IF ctxLive(s, n) THEN s.ctxDev[n] ELSE 0

alcGetContextsDeviceState(s, n) ==
    IF ctxLive(s, n) THEN s ELSE alcSetError(s, 0, "ALC_INVALID_CONTEXT")

\* alcMakeContextCurrent(n): NULL releases the current context.
alcMakeContextCurrent(s, n) ==
    IF n = 0 THEN [s EXCEPT !.cur = 0]
    ELSE IF ctxLive(s, n) THEN [s EXCEPT !.cur = n]
    ELSE alcSetError(s, 0, "ALC_INVALID_CONTEXT")

\* alcDestroyContext(n), n not NULL.
alcDestroyContext(s, n) ==
    LET s1 == [s EXCEPT !.destroys[n] = Min(@ + 1, MaxCount)]
    IN  IF ctxLive(s, n)
        THEN [s1 EXCEPT !.ctxDev[n] = 0, !.cur = IF @ = n THEN 0 ELSE @]
        ELSE alcSetError(s1, 0, "ALC_INVALID_CONTEXT")

\* mContext = alcCreateContext(device, attributes) of Context c: n is the
\* driver's answer, a context name not in use or (n = 0) NULL.
alcCreateContext(s, c, device, n) ==
    IF device \notin s.live
    THEN [alcSetError(s, 0, "ALC_INVALID_DEVICE") EXCEPT !.ctx[c] = 0]
    ELSE IF n = 0
    THEN [alcSetError(s, device, "ALC_OUT_OF_MEMORY") EXCEPT !.ctx[c] = 0]
    ELSE [s EXCEPT !.ctxDev[n] = device, !.destroys[n] = 0, !.ctx[c] = n]

\* What alcCreateContext and alcOpenDevice may answer in state s.
CtxAnswers(s) == {0} \cup {n \in Names : s.ctxDev[n] = 0}

\* ---------------------------------------------------------------- wrappers
\* Each member function maps the state s it is called in to the state it
\* leaves; o is the object it is called on.  A function whose error check
\* ended the program (s.term) leaves its remaining statements undone.

\* Buffer::destroy() without its "mHandle = 0".
Buffer_destroy_keepsHandle(s, o) ==
    IF s.h[o] # 0 THEN AL_CHECK_ERROR(alDelete(s, s.h[o])) ELSE s

Buffer_destroy(s, o) ==
    IF s.h[o] # 0
    THEN LET s1 == AL_CHECK_ERROR(alDelete(s, s.h[o]))
         IN  IF s1.term THEN s1 ELSE [s1 EXCEPT !.h[o] = 0]
    ELSE s

Source_destroy(s, o) ==
    IF s.h[o] # 0
    THEN LET s1 == AL_CHECK_ERROR(alDelete(s, s.h[o]))
         IN  IF s1.term THEN s1 ELSE [s1 EXCEPT !.h[o] = 0]
    ELSE s

Filter_destroy(s, o) ==
    IF ~(s.h[o] # 0) THEN s
    ELSE LET s1 == AL_CHECK_ERROR(alDelete(s, s.h[o]))
         IN  IF s1.term THEN s1 ELSE [s1 EXCEPT !.h[o] = 0]

Effect_destroy(s, o) ==
    IF s.h[o] = 0 THEN s
    ELSE LET s1 == AL_CHECK_ERROR(alDelete(s, s.h[o]))
         IN  IF s1.term THEN s1 ELSE [s1 EXCEPT !.h[o] = 0]

AuxiliaryEffectsSlot_destroy(s, o) ==
    IF s.h[o] = 0 THEN s
    ELSE LET s1 == AL_CHECK_ERROR(alDelete(s, s.h[o]))
         IN  IF s1.term THEN s1 ELSE [s1 EXCEPT !.h[o] = 0]

\* destroy() of class c.
destroy(c, s, o) ==
    CASE c = "Buffer" -> Buffer_destroy(s, o)
      [] c = "Source" -> Source_destroy(s, o)
      [] c = "Filter" -> Filter_destroy(s, o)
      [] c = "Effect" -> Effect_destroy(s, o)
      [] c = "AuxiliaryEffectsSlot" -> AuxiliaryEffectsSlot_destroy(s, o)

\* gen() of class c: destroy(); alGen*(1, &mHandle); AL_CHECK_ERROR().  n is
\* the driver's answer to the generate call.
gen(c, s, o, n) ==
    LET s1 == destroy(c, s, o)
    IN  IF s1.term THEN s1 ELSE AL_CHECK_ERROR(alGen(s1, o, n))

\* The answers the driver may give to the generate call inside gen().
genAnswers(c, s, o) == GenAnswers(destroy(c, s, o))

\* std::exchange(src.mHandle, 0) assigned to the handle of o: the source is
\* nulled first, then o receives the value read from the source.
exchangeInto(s, o, src) ==
    LET old == s.h[src]
    IN  [s EXCEPT !.h[src] = 0, !.h[o] = old]

\* Buffer(Buffer&&), Source(Source&&): BufferView(std::exchange(src.mHandle, 0)).
moveConstruct(s, o, src) ==
    [exchangeInto(s, o, src) EXCEPT !.alive[o] = TRUE]

\* A move assignment without its "destroy()".
moveAssign_noDestroy(c, s, o, src) == exchangeInto(s, o, src)

\* Buffer::operator=(Buffer&&), Source::operator=(Source&&).
moveAssign(c, s, o, src) ==
    LET s1 == destroy(c, s, o)
    IN  IF s1.term THEN s1 ELSE exchangeInto(s1, o, src)

\* ~Buffer, ~Source, ~Filter, ~Effect, ~AuxiliaryEffectsSlot: destroy().
destruct(c, s, o) ==
    LET s1 == destroy(c, s, o)
    IN  IF s1.term THEN s1 ELSE [s1 EXCEPT !.alive[o] = FALSE]

\* Buffer(data, size, fmt, freq): gen(); this->data(...), and
\* Source(BufferView): gen(); this->buffer(buffer).  n is the driver's answer
\* to the generate call, e the outcome of the property call.
constructWith(c, s, o, n, e) ==
    LET s0 == [s EXCEPT !.alive[o] = TRUE, !.h[o] = 0]
        s1 == gen(c, s0, o, n)
    IN  IF s1.term THEN s1
        ELSE AL_CHECK_ERROR(alProperty(s1, s1.h[o], e))

\* Device::release(): std::exchange(mDeviceHandle, nullptr), assigned to the
\* handle of o.
Device_release(s, o, src) ==
    LET old == s.h[src]
    IN  [s EXCEPT !.h[src] = 0, !.h[o] = old]

\* Device(const char* name): mDeviceHandle = alcOpenDevice(name).
Device_open(s, o, n) ==
    [alcOpenDevice(s, n) EXCEPT !.alive[o] = TRUE, !.h[o] = n]

\* Device(Device&& other): DeviceView(other.release()).
Device_moveConstruct(s, o, src) ==
    [Device_release(s, o, src) EXCEPT !.alive[o] = TRUE]

\* Device::operator=(Device&& other).
Device_moveAssign(s, o, src) ==
    LET s1 == IF s.h[o] # 0 THEN alcCloseDevice(s, s.h[o]) ELSE s
    IN  Device_release(s1, o, src)

\* ~Device().
Device_destruct(s, o) ==
    LET s1 == IF s.h[o] # 0 THEN alcCloseDevice(s, s.h[o]) ELSE s
    IN  [s1 EXCEPT !.alive[o] = FALSE]

\* Context::close().  mContext is left as it was.
Context_close(s, c) ==
    IF s.ctx[c] = 0 THEN s
    ELSE LET m == s.ctx[c]
             device == alcGetContextsDevice(s, m)
             s1 == ALC_CHECK_ERROR(alcGetContextsDeviceState(s, m), device)
             s2 == ALC_CHECK_ERROR(alcMakeContextCurrent(s1, 0), device)
             s3 == ALC_CHECK_ERROR(alcDestroyContext(s2, m), device)
         IN  IF s1.term THEN s1
             ELSE IF s2.term THEN s2
             ELSE IF s3.term THEN s3
             ELSE alcCloseDevice(s3, device)

\* Context::init(Options options): the parameter is move-constructed from
\* the caller's Options, whose device it takes.  nDev and nCtx are the
\* driver's answers to alcOpenDevice(NULL) and alcCreateContext.
Context_init(s, c, nDev, nCtx) ==
    LET s1 == Context_close(s, c)
        taken == s1.opt
        s2 == [s1 EXCEPT !.opt = 0]
        device == IF taken = 0 THEN nDev ELSE taken
        s3 == IF taken = 0
              THEN ALC_CHECK_ERROR(alcOpenDevice(s2, nDev), nDev)
              ELSE s2
        s3o == IF device = 0 THEN s3
               ELSE [s3 EXCEPT !.owned[c] = @ \cup {device}]
        s4 == ALC_CHECK_ERROR(alcCreateContext(s3o, c, device, nCtx), device)
        s5 == ALC_CHECK_ERROR(alcMakeContextCurrent(s4, s4.ctx[c]), device)
    IN  IF s1.term THEN s1
        ELSE IF s3.term THEN s3
        ELSE IF s4.term THEN s4
        ELSE IF s5.term THEN s5
        ELSE [s5 EXCEPT !.err = "AL_NO_ERROR"]

\* The answers the driver may give inside init(): the device of
\* alcOpenDevice(NULL) (asked only when Options carries none) and the
\* context of alcCreateContext.
initAnswers(s, c) ==
    LET s1 == Context_close(s, c)
    IN  {a \in (IF s1.opt = 0 THEN GenAnswers(s1) ELSE {0}) \X CtxAnswers(s1) :
            TRUE}

\* Context(Options): Context(nullptr), then init(std::move(options)).
Context_construct(s, c, nDev, nCtx) ==
    Context_init([s EXCEPT !.ctxAlive[c] = TRUE, !.ctx[c] = 0], c, nDev, nCtx)

\* ~Context(): close().
Context_destruct(s, c) ==
    LET s1 == Context_close(s, c)
    IN  IF s1.term THEN s1 ELSE [s1 EXCEPT !.ctxAlive[c] = FALSE]

\* options.device = Device(name): the temporary opens device n (or holds
\* NULL), Device::operator= closes the device options.device holds and takes
\* the temporary's, whose destructor then finds a null handle.
Options_setDevice(s, n) ==
    LET s1 == alcOpenDevice(s, n)
        s2 == IF s1.opt # 0 THEN alcCloseDevice(s1, s1.opt) ELSE s1
    IN  [s2 EXCEPT !.opt = n]

\* ------------------------------------------- the wrapped operations, by name
\* Every member function that calls the driver itself, with its driver calls
\* in order: the function called, its API, whether AL_CHECK_ERROR() or
\* ALC_CHECK_ERROR(device) follows the call, and the line of the call site.
\* Functions that only delegate (pitch(), gain(), ..., the constructors and
\* destructors calling gen() and destroy(), init() calling close()) make
\* their driver calls through the functions listed here.

Call1(fn, api, check, line) ==
    [fn |-> fn, api |-> api, check |-> check, line |-> line]

\* A noexcept member function with one AL call followed by AL_CHECK_ERROR().
Checked(name, fn, line) ==
    [name |-> name, noexcept |-> TRUE,
     calls |-> <<Call1(fn, "AL", TRUE, line)>>]

\* A noexcept member function with one driver call and no check.
Unchecked(name, fn, api, line) ==
    [name |-> name, noexcept |-> TRUE,
     calls |-> <<Call1(fn, api, FALSE, line)>>]

WrappedOps == {
    Unchecked("DeviceView::geti", "alcGetIntegerv", "ALC", 75),
    Unchecked("DeviceView::gets", "alcGetString", "ALC", 78),
    Unchecked("DeviceView::getStringISOFT", "alcGetStringiSOFT", "ALC", 79),
    Unchecked("Device::Device(name)", "alcOpenDevice", "ALC", 92),
    Unchecked("Device::operator=", "alcCloseDevice", "ALC", 99),
    Unchecked("Device::~Device", "alcCloseDevice", "ALC", 106),
    [name |-> "Context::init", noexcept |-> TRUE,
     calls |-> <<Call1("alcOpenDevice", "ALC", TRUE, 130),
                 Call1("alcCreateContext", "ALC", TRUE, 132),
                 Call1("alcMakeContextCurrent", "ALC", TRUE, 133),
                 Call1("alGetError", "AL", FALSE, 134)>>],
    [name |-> "Context::close", noexcept |-> TRUE,
     calls |-> <<Call1("alcGetContextsDevice", "ALC", TRUE, 140),
                 Call1("alcMakeContextCurrent", "ALC", TRUE, 141),
                 Call1("alcDestroyContext", "ALC", TRUE, 142),
                 Call1("alcCloseDevice", "ALC", FALSE, 143)>>],
    Unchecked("Context::device", "alcGetContextsDevice", "ALC", 146),
    Checked("BufferView::data", "alBufferData", 189),
    Checked("BufferView::geti", "alGetBufferi", 194),
    Checked("Buffer::gen", "alGenBuffers", 228),
    Checked("Buffer::destroy", "alDeleteBuffers", 232),
    Checked("SourceView::play", "alSourcePlay", 243),
    Checked("SourceView::pause", "alSourcePause", 244),
    Checked("SourceView::stop", "alSourceStop", 245),
    Checked("SourceView::rewind", "alSourceRewind", 246),
    Checked("SourceView::queueBuffers", "alSourceQueueBuffers", 254),
    Checked("SourceView::unqueueBuffers", "alSourceUnqueueBuffers", 262),
    Checked("SourceView::getf", "alGetSourcef", 275),
    Checked("SourceView::geti", "alGetSourcei", 280),
    Checked("SourceView::get3f", "alGetSourcefv", 285),
    Checked("SourceView::set(float)", "alSourcef", 288),
    Checked("SourceView::set(int)", "alSourcei", 289),
    Checked("SourceView::set(vec3)", "alSource3f", 290),
    Checked("SourceView::auxiliary_send_filter", "alSource3i", 337),
    Checked("Source::gen", "alGenSources", 375),
    Checked("Source::destroy", "alDeleteSources", 379),
    Checked("Listener::set(int)", "alListeneri", 388),
    Checked("Listener::set(float)", "alListenerf", 389),
    Checked("Listener::set(vec3)", "alListener3f", 390),
    Checked("Listener::geti", "alGetListeneri", 394),
    Checked("Listener::getf", "alGetListenerf", 399),
    Checked("Listener::get3f", "alGetListenerfv", 404),
    Checked("Listener::orientation", "alListenerfv", 417),
    Checked("FilterView::type", "alGetFilteri", 427),
    Checked("FilterView::set(int)", "alFilteri", 438),
    Checked("FilterView::set(float)", "alFilterf", 439),
    Checked("FilterView::geti", "alGetFilteri", 442),
    Checked("FilterView::getf", "alGetFilterf", 447),
    Checked("Filter::gen", "alGenFilters", 460),
    Checked("Filter::destroy", "alDeleteFilters", 464),
    Checked("EffectView::type", "alEffecti", 476),
    Checked("EffectView::set(float)", "alEffectf", 478),
    Checked("EffectView::set(int)", "alEffecti", 479),
    Checked("EffectView::geti", "alGetFilteri", 482),
    Checked("EffectView::getf", "alGetFilterf", 487),
    Checked("Effect::gen", "alGenEffects", 515),
    Checked("Effect::destroy", "alDeleteEffects", 520),
    Checked("AuxiliaryEffectsSlotView::effect", "alAuxiliaryEffectSloti", 532),
    Unchecked("AuxiliaryEffectsSlotView::gain", "alAuxiliaryEffectSlotf", "AL", 535),
    Unchecked("AuxiliaryEffectsSlotView::auxiliarySendAuto",
              "alAuxiliaryEffectSloti", "AL", 538),
    Checked("AuxiliaryEffectsSlot::gen", "alGenAuxiliaryEffectSlots", 549),
    Checked("AuxiliaryEffectsSlot::destroy", "alDeleteAuxiliaryEffectSlots", 554) }

ALCErrors == {"ALC_INVALID_DEVICE", "ALC_INVALID_CONTEXT", "ALC_INVALID_ENUM",
              "ALC_INVALID_VALUE", "ALC_OUT_OF_MEMORY"}

\* The result of an operation that has not been called.
NoResult ==
    [name |-> "none", calls |-> 0, unchecked |-> 0, read |-> "none",
     outcome |-> "returned", what |-> [code |-> "none", line |-> 0]]

\* How a function ends: an exception leaving a noexcept function ends the
\* program (std::terminate) and reaches no caller.
Outcome(thrown, noexcept) ==
    IF thrown = "none" THEN "returned"
    ELSE IF noexcept THEN "terminated" ELSE "thrown"

\* The driver call of one step: the call records failure e (no failure:
\* the API's success code); alGetError() reads and clears the AL error.
driverCall(s, call, e) ==
    IF call.fn = "alGetError" THEN [s EXCEPT !.err = "AL_NO_ERROR"]
    ELSE IF call.api = "AL" THEN SetError(s, e)
    ELSE IF e = "ALC_NO_ERROR" THEN s
    ELSE [s EXCEPT !.alcErr[0] = e]

\* The error check of one step, as compiled: the code it reads, cleared by
\* the read, and the exception alCheckError / alcCheckError throws for it.
checkStep(s, op, call) ==
    LET code == IF call.api = "AL" THEN s.err ELSE s.alcErr[0]
        thrown == IF call.api = "AL" THEN alCheckErrorThrows(code)
                                     ELSE alcCheckErrorThrows(code)
        cleared == IF call.api = "AL" THEN [s EXCEPT !.err = "AL_NO_ERROR"]
                                      ELSE [s EXCEPT !.alcErr[0] = "ALC_NO_ERROR"]
    IN  [cleared EXCEPT
            !.res.read = IF code \in ALErrors \cup ALCErrors THEN code ELSE @,
            !.res.what = IF thrown = "none" THEN @
                         ELSE [code |-> thrown, line |-> call.line],
            !.res.outcome = Outcome(thrown, op.noexcept),
            !.term = (Outcome(thrown, op.noexcept) = "terminated")]

\* Steps i.. of operation op; fail[i] is the failure call i meets.
RECURSIVE runCalls(_, _, _, _)
runCalls(s, op, fail, i) ==
    IF i > Len(op.calls) \/ s.res.outcome # "returned" THEN s
    ELSE LET call == op.calls[i]
             s1 == [driverCall(s, call, fail[i]) EXCEPT !.res.calls = @ + 1]
             s2 == IF call.check /\ checking THEN checkStep(s1, op, call)
                   ELSE IF call.fn = "alGetError" THEN s1
                   ELSE [s1 EXCEPT !.res.unchecked = @ + 1]
         IN  runCalls(s2, op, fail, i + 1)

\* The wrapped operation op, called in state s.
callOp(s, op, fail) ==
    runCalls([s EXCEPT !.res = [NoResult EXCEPT !.name = op.name]], op, fail, 1)

\* The failures the calls of op may meet: any set of its calls fails, with
\* one code e of the call's API.
Failures(op) ==
    {[i \in 1..Len(op.calls) |->
         IF i \in F
         THEN (IF op.calls[i].api = "AL" THEN e[1] ELSE e[2])
         ELSE (IF op.calls[i].api = "AL" THEN "AL_NO_ERROR" ELSE "ALC_NO_ERROR")] :
       F \in SUBSET (1..Len(op.calls)), e \in ALErrors \X ALCErrors}

\* ------------------------------------------------------------------ Format

\* enum class Format, and a value outside the enumeration.
MonoFormats == {"Mono8", "Mono16", "MonoF32"}
StereoFormats == {"Stereo8", "Stereo16", "StereoF32"}
Formats == MonoFormats \cup StereoFormats
FormatValues == Formats \cup {"Invalid"}

NoFmtRes ==
    [fn |-> "none", arg |-> [fmt |-> "none", channels |-> 0], error |-> "none",
     fmt |-> "none", mono |-> "none", channels |-> 0]

\* A MultiChannelFormat whose table maps MonoF32 to Stereo16.
MultiChannelFormat_wrongF32(mono, channels) ==
    IF channels = 1 THEN [error |-> "none", fmt |-> mono]
    ELSE IF channels = 2
    THEN CASE mono = "Mono8"   -> [error |-> "none", fmt |-> "Stereo8"]
           [] mono = "Mono16"  -> [error |-> "none", fmt |-> "Stereo16"]
           [] mono = "MonoF32" -> [error |-> "none", fmt |-> "Stereo16"]
           [] OTHER -> [error |-> "Argument mono is not a mono format!",
                        fmt |-> "none"]
    ELSE [error |-> "Unsupported number of channels", fmt |-> "none"]

\* Format MultiChannelFormat(Format mono, unsigned channels).
MultiChannelFormat(mono, channels) ==
    IF channels = 1 THEN [error |-> "none", fmt |-> mono]
    ELSE IF channels = 2
    THEN CASE mono = "Mono8"   -> [error |-> "none", fmt |-> "Stereo8"]
           [] mono = "Mono16"  -> [error |-> "none", fmt |-> "Stereo16"]
           [] mono = "MonoF32" -> [error |-> "none", fmt |-> "StereoF32"]
           [] OTHER -> [error |-> "Argument mono is not a mono format!",
                        fmt |-> "none"]
    ELSE [error |-> "Unsupported number of channels", fmt |-> "none"]

\* void DecomposeFormat(Format fmt, Format* mono, unsigned* channels):
\* what is stored through the two pointers.
DecomposeFormat(fmt) ==
    CASE fmt = "Mono8"     -> [error |-> "none", mono |-> "Mono8", channels |-> 1]
      [] fmt = "Mono16"    -> [error |-> "none", mono |-> "Mono16", channels |-> 1]
      [] fmt = "MonoF32"   -> [error |-> "none", mono |-> "MonoF32", channels |-> 1]
      [] fmt = "Stereo8"   -> [error |-> "none", mono |-> "Mono8", channels |-> 2]
      [] fmt = "Stereo16"  -> [error |-> "none", mono |-> "Mono16", channels |-> 2]
      [] fmt = "StereoF32" -> [error |-> "none", mono |-> "MonoF32", channels |-> 2]
      [] OTHER -> [error |-> "Unknown format", mono |-> "none", channels |-> 0]

\* --------------------------------------------------------------- EFX views
\* Effects, filters and auxiliary effect slots are three kinds of driver
\* object, each kind with its own name space: the same number may name an
\* effect and a filter at once.  A view is made from a handle value, so its
\* member functions are operators on that value.  They act on the state
\* record E below.

EfxKinds == {"Effect", "Filter", "AuxiliaryEffectsSlot"}
Values == 0..MaxValue

\* The parameters of a newly generated effect or filter.
NoValue == [i |-> 0, f |-> 0]

NoEfxCall ==
    [fn |-> "none", handle |-> 0, args |-> <<>>, passed |-> <<>>, result |-> 0]

\* operator bool() of FilterView, EffectView and AuxiliaryEffectsSlotView,
\* the only conversion these classes declare, followed by the promotion of
\* the bool to the int the driver call takes.
operator_bool(mHandle_) == IF mHandle_ # 0 THEN 1 ELSE 0

\* Effect e; e.gen(), Filter f; f.gen(), AuxiliaryEffectsSlot s; s.gen():
\* destroy() finds the null handle; n is the driver's answer to alGen*.
Efx_gen(s, k, n) ==
    AL_CHECK_ERROR(
        IF n = 0 THEN SetError(s, "AL_OUT_OF_MEMORY")
        ELSE [s EXCEPT !.live[k] = @ \cup {n}, !.value[k][n] = NoValue])

\* alEffecti / alEffectf / alFilteri / alFilterf(n, p, v) on kind k: ty is
\* "i" or "f".
alEfxSet(s, k, n, ty, v) ==
    IF n \in s.live[k] THEN [s EXCEPT !.value[k][n][ty] = v]
    ELSE SetError(s, "AL_INVALID_NAME")

\* alGetFilteri / alGetFilterf(n, p, &result): stores the parameter of
\* filter n in result; for a name that is no filter it records an error
\* and leaves result as it was: uninitialized, the value junk.
alGetFilter(s, n, ty, junk) ==
    IF n \in s.live["Filter"]
    THEN [s EXCEPT !.call.result = s.value["Filter"][n][ty]]
    ELSE [SetError(s, "AL_INVALID_NAME") EXCEPT !.call.result = junk]

\* EffectView(h).set(p, int v), EffectView(h).set(p, float v).
EffectView_set(s, h, ty, v) ==
    AL_CHECK_ERROR([alEfxSet(s, "Effect", h, ty, v) EXCEPT
        !.call = [NoEfxCall EXCEPT !.fn = "EffectView::set", !.handle = h,
                                   !.args = <<ty, v>>]])

\* FilterView(h).set(p, int v), FilterView(h).set(p, float v).
FilterView_set(s, h, ty, v) ==
    AL_CHECK_ERROR([alEfxSet(s, "Filter", h, ty, v) EXCEPT
        !.call = [NoEfxCall EXCEPT !.fn = "FilterView::set", !.handle = h,
                                   !.args = <<ty, v>>]])

\* EffectView(h).geti(p): int result; alGetFilteri(mHandle, p, &result);
\* AL_CHECK_ERROR(); return result.
EffectView_geti(s, h, junk) ==
    LET s0 == [s EXCEPT !.call = [NoEfxCall EXCEPT !.fn = "EffectView::geti",
                                                   !.handle = h]]
    IN  AL_CHECK_ERROR(alGetFilter(s0, h, "i", junk))

\* EffectView(h).getf(p): float result; alGetFilterf(mHandle, p, &result);
\* AL_CHECK_ERROR(); return result.
EffectView_getf(s, h, junk) ==
    LET s0 == [s EXCEPT !.call = [NoEfxCall EXCEPT !.fn = "EffectView::getf",
                                                   !.handle = h]]
    IN  AL_CHECK_ERROR(alGetFilter(s0, h, "f", junk))

\* alAuxiliaryEffectSloti(slot, AL_EFFECTSLOT_EFFECT, e): e must be 0 or
\* name a live effect.
alAuxiliaryEffectSloti(s, slot, e) ==
    IF slot \notin s.live["AuxiliaryEffectsSlot"]
    THEN SetError(s, "AL_INVALID_NAME")
    ELSE IF e # 0 /\ e \notin s.live["Effect"]
    THEN SetError(s, "AL_INVALID_VALUE")
    ELSE s

\* AuxiliaryEffectsSlotView(h).effect(EffectView(e)).
AuxiliaryEffectsSlotView_effect(s, h, e) ==
    LET passed == <<operator_bool(e)>>
        s0 == [s EXCEPT !.call = [NoEfxCall EXCEPT
                   !.fn = "AuxiliaryEffectsSlotView::effect", !.handle = h,
                   !.args = <<e>>, !.passed = passed]]
    IN  AL_CHECK_ERROR(alAuxiliaryEffectSloti(s0, h, passed[1]))

\* alSource3i(source, AL_AUXILIARY_SEND_FILTER, slot, send, filter) on a
\* valid source and send: slot and filter must each be 0 or a live name.
alSource3i(s, slot, filter) ==
    IF \/ slot # 0 /\ slot \notin s.live["AuxiliaryEffectsSlot"]
       \/ filter # 0 /\ filter \notin s.live["Filter"]
    THEN SetError(s, "AL_INVALID_VALUE")
    ELSE s

\* source.auxiliary_send_filter(sendIndex, AuxiliaryEffectsSlotView(slot),
\* FilterView(filter)).
SourceView_auxiliary_send_filter(s, slot, filter) ==
    LET passed == <<operator_bool(slot), operator_bool(filter)>>
        s0 == [s EXCEPT !.call = [NoEfxCall EXCEPT
                   !.fn = "SourceView::auxiliary_send_filter",
                   !.args = <<slot, filter>>, !.passed = passed]]
    IN  AL_CHECK_ERROR(alSource3i(s0, passed[1], passed[2]))

\* ------------------------------------------------------- streaming queue
\* One generated source, seen through a SourceView; every name of Names is a
\* generated buffer.  The member functions act on the state record Q below.

NoQueueCall ==
    [fn |-> "none", result |-> <<>>, expect |-> <<>>,
     before |-> [queued |-> 0, processed |-> 0],
     after |-> [queued |-> 0, processed |-> 0]]

\* The first n elements of sequence q, and the rest.
Take(q, n) == SubSeq(q, 1, n)
Drop(q, n) == SubSeq(q, n + 1, Len(q))

\* alSourceQueueBuffers(source, count, buffers): appends the buffers, or
\* (accept false: a buffer whose format differs from the queued ones)
\* records an error and queues nothing.  On a stopped source every queued
\* buffer counts as processed.
alSourceQueueBuffers(s, bufs, accept) ==
    IF ~accept THEN SetError(s, "AL_INVALID_OPERATION")
    ELSE [s EXCEPT !.queue = @ \o bufs,
                   !.processed = IF s.state = "Stopped" THEN @ + Len(bufs) ELSE @]

\* alSourceUnqueueBuffers(source, count, buffers): removes count processed
\* buffers from the head of the queue and stores their names; with fewer
\* processed buffers it records an error and stores nothing.
alSourceUnqueueBuffers(s, count) ==
    IF count > s.processed
    THEN [state |-> SetError(s, "AL_INVALID_VALUE"), stored |-> <<>>]
    ELSE [state |-> [s EXCEPT !.queue = Drop(@, count),
                              !.processed = @ - count],
          stored |-> Take(s.queue, count)]

\* buffers_queued(), buffers_processed(): geti(AL_BUFFERS_QUEUED),
\* geti(AL_BUFFERS_PROCESSED), the int converted to unsigned.
buffers_queued(s) == Len(s.queue)
buffers_processed(s) == s.processed

\* SourceView::queueBuffers(buffers, count); the buffers the driver took
\* are noted in pending.
SourceView_queueBuffers(s, bufs, accept) ==
    LET s1 == alSourceQueueBuffers(s, bufs, accept)
        s2 == AL_CHECK_ERROR(s1)
    IN  IF s2.term THEN s2
        ELSE [s2 EXCEPT !.pending = IF accept THEN @ \o bufs ELSE @]

\* SourceView::queueBuffer(buffer): queueBuffers(&buffer, 1).
SourceView_queueBuffer(s, buf, accept) ==
    SourceView_queueBuffers(s, <<buf>>, accept)

\* SourceView::unqueueBuffers(buffers, count) on an array of count
\* null views: what the array holds afterwards.
SourceView_unqueueBuffers(s, count) ==
    LET r == alSourceUnqueueBuffers(s, count)
        res == IF r.stored = <<>> THEN [i \in 1..count |-> 0] ELSE r.stored
        s2 == AL_CHECK_ERROR(r.state)
    IN  [state |-> s2, result |-> res]

\* An unqueueBuffer() that returns its null view, the driver's answer lost.
SourceView_unqueueBuffer_nullView(s) ==
    [state |-> SourceView_unqueueBuffers(s, 1).state, result |-> 0]

\* SourceView::unqueueBuffer(): BufferView result; unqueueBuffers(&result, 1);
\* return result.
SourceView_unqueueBuffer(s) ==
    LET r == SourceView_unqueueBuffers(s, 1)
    IN  [state |-> r.state, result |-> r.result[1]]

\* alSourcePlay: playback starts at the head of the queue; a source with an
\* empty queue stops at once.
SourceView_play(s) ==
    AL_CHECK_ERROR([s EXCEPT !.state = IF s.queue = <<>> THEN "Stopped"
                                                        ELSE "Playing",
                             !.processed = 0])

\* alSourceStop: a source that was started becomes stopped, all its queued
\* buffers processed.
SourceView_stop(s) ==
    AL_CHECK_ERROR(IF s.state = "Initial" THEN s
                   ELSE [s EXCEPT !.state = "Stopped",
                                  !.processed = Len(s.queue)])

\* ------------------------------------------------------ playback offsets

\* The values of size_t.
SizeT == 0..(2^SizeWidth - 1)

OffsetProps == {"sample", "byte"}

NoOffsetCall == [fn |-> "none", prop |-> "none", arg |-> 0, passed |-> 0,
                 result |-> 0]

\* (int)value for a size_t value: the low IntWidth bits, as a signed number.
castToInt(value) ==
    LET low == value % 2^IntWidth
    IN  IF low >= 2^(IntWidth - 1) THEN low - 2^IntWidth ELSE low

\* The conversion of the int geti() returned to the size_t the getter
\* returns: the value modulo 2^SizeWidth.
intToSizeT(i) == i % 2^SizeWidth

\* alSourcei(source, AL_SAMPLE_OFFSET / AL_BYTE_OFFSET, i): the driver
\* stores the offset as given; a negative offset is an error.
alSourcei_offset(s, prop, i) ==
    IF i < 0 THEN SetError(s, "AL_INVALID_VALUE")
    ELSE [s EXCEPT !.offset[prop] = i]

\* SourceView::sample_offset(size_t value), SourceView::byte_offset(size_t
\* value): set(AL_..._OFFSET, (int)value).
SourceView_set_offset(s, prop, value) ==
    LET i == castToInt(value)
        s0 == [s EXCEPT !.call = [NoOffsetCall EXCEPT
                   !.fn = "set", !.prop = prop, !.arg = value, !.passed = i],
                        !.wanted[prop] = value]
    IN  AL_CHECK_ERROR(alSourcei_offset(s0, prop, i))

\* size_t SourceView::sample_offset(), size_t SourceView::byte_offset():
\* return geti(AL_..._OFFSET).
SourceView_get_offset(s, prop) ==
    LET s0 == [s EXCEPT !.call = [NoOffsetCall EXCEPT
                   !.fn = "get", !.prop = prop,
                   !.result = intToSizeT(s.offset[prop])]]
    IN  AL_CHECK_ERROR(s0)

\* ------------------------------------------------------ Context::Options

AttrValues == 0..MaxAttr

\* Sequences over S of length lo..hi.
SeqsOf(S, lo, hi) == UNION {[1..n -> S] : n \in lo..hi}

\* std::vector<int> options = { 0 }.
Options_construct == <<0>>

\* An add() that inserts at options.end().
Options_add_atEnd(opts, values) == opts \o values

\* Options::add(values) on a vector that is not empty:
\* options.insert(options.begin() + options.size() - 1, values.begin(),
\* values.end()): the values go in before the last element.
Options_add(opts, values) ==
    SubSeq(opts, 1, Len(opts) - 1) \o values \o <<opts[Len(opts)]>>

\* Options::get(): options.data(), the array of options.size() elements.
Options_get(opts) == opts

\* ------------------------------------------------------------------- views
\* A BufferView, SourceView, FilterView, EffectView, AuxiliaryEffectsSlotView
\* or DeviceView object of its own (not the base part of an owning wrapper),
\* and the temporary views it is copied and assigned from.  The special
\* member functions act on the state record WV: W with the fields va
\* (viewAlive) and vh (viewHandle) added.

\* A view destructor that releases the handle as the owning class does.
View_destruct_releases(s) ==
    LET n == s.vh
        s1 == IF n = 0 THEN s
              ELSE IF cls = "Device" THEN alcCloseDevice(s, n)
              ELSE alDelete(s, n)
    IN  [s1 EXCEPT !.va = FALSE, !.vh = 0]

\* ~BufferView() {} and the implicit destructors of the other views; the
\* storage of the dead view is read as 0.
View_destruct(s) == [s EXCEPT !.va = FALSE, !.vh = 0]

\* BufferView(unsigned handle), ..., DeviceView(void* deviceHandle):
\* mHandle(handle).
View_construct(s, handle) == [s EXCEPT !.va = TRUE, !.vh = handle]

\* The implicit copy constructor of a view class, from a view or from the
\* view part of an owning wrapper that holds handle.
View_copy(s, handle) == [s EXCEPT !.va = TRUE, !.vh = handle]

\* The implicit copy assignment of a view class.
View_assign(s, handle) == [s EXCEPT !.vh = handle]

\* ------------------------------------------------------------ state machine

\* The state the member functions act on.
W == [h |-> mHandle, alive |-> alive, live |-> live, dels |-> delCalls,
      err |-> alError, alcErr |-> alcError, term |-> terminated,
      ctxAlive |-> ctxAlive, ctx |-> mContext, opt |-> optDevice,
      ctxDev |-> ctxDevice, cur |-> current, destroys |-> destroyCalls,
      owned |-> owned, res |-> opResult]

\* The step to state s, performed by operation op.
Apply(s, op) ==
    /\ mHandle' = s.h
    /\ alive' = s.alive
    /\ live' = s.live
    /\ delCalls' = s.dels
    /\ alError' = s.err
    /\ alcError' = s.alcErr
    /\ terminated' = s.term
    /\ lastOp' = op
    /\ ctxAlive' = s.ctxAlive
    /\ mContext' = s.ctx
    /\ optDevice' = s.opt
    /\ ctxDevice' = s.ctxDev
    /\ current' = s.cur
    /\ destroyCalls' = s.destroys
    /\ owned' = s.owned
    /\ opResult' = s.res
    /\ UNCHANGED <<checking, cls, fmtVars, extVars>>

Op(name, o, src) == [op |-> name, obj |-> o, src |-> src]

\* After construction: every object default-constructed (a null handle), the
\* driver holding no resource and no pending error.
InitCommon ==
    /\ checking \in BOOLEAN
    /\ terminated = FALSE
    /\ alError = "AL_NO_ERROR"
    /\ alcError = [d \in Handles |-> "ALC_NO_ERROR"]
    /\ alive = [o \in Objs |-> TRUE]
    /\ mHandle = [o \in Objs |-> 0]
    /\ live = {}
    /\ delCalls = [n \in Names |-> 0]
    /\ lastOp = Op("none", 0, 0)
    /\ ctxAlive = [c \in Ctxs |-> TRUE]
    /\ mContext = [c \in Ctxs |-> 0]
    /\ optDevice = 0
    /\ ctxDevice = [n \in Names |-> 0]
    /\ current = 0
    /\ destroyCalls = [n \in Names |-> 0]
    /\ owned = [c \in Ctxs |-> {}]
    /\ opResult = NoResult
    /\ efxLive = [k \in EfxKinds |-> {}]
    /\ efxValue = [k \in EfxKinds |-> [n \in Names |-> NoValue]]
    /\ efxCall = NoEfxCall
    /\ srcQueue = <<>>
    /\ srcProcessed = 0
    /\ srcState = "Initial"
    /\ srcPending = <<>>
    /\ queueCall = NoQueueCall
    /\ srcOffset = [p \in OffsetProps |-> 0]
    /\ offsetSet = [p \in OffsetProps |-> 0]
    /\ offsetCall = NoOffsetCall
    /\ options = Options_construct
    /\ optAdded = <<>>
    /\ optMoved = FALSE
    /\ viewAlive = FALSE
    /\ viewHandle = 0

NoFormatCall ==
    /\ fmtArgs = [fmt |-> "Mono8", channels |-> 1]
    /\ fmtRes = NoFmtRes
    /\ fmtFrom = NoFmtRes

Init == InitCommon /\ NoFormatCall /\ cls \in Classes

\* Buffer(nullptr), Source(nullptr), Filter(nullptr), Effect(nullptr),
\* AuxiliaryEffectsSlot(nullptr), Device(nullptr) in dead storage.
Construct(o) ==
    /\ ~terminated /\ ~alive[o]
    /\ Apply([W EXCEPT !.alive[o] = TRUE, !.h[o] = 0], Op("construct", o, 0))

\* Buffer(data, size, fmt, freq), Source(buffer).
ConstructWith(o) ==
    /\ ~terminated /\ ~alive[o] /\ cls \in {"Buffer", "Source"}
    /\ \E n \in GenAnswers(W), e \in {"AL_NO_ERROR"} \cup ALErrors :
          Apply(constructWith(cls, W, o, n, e), Op("constructWith", o, 0))

\* Device(name).
Open(o) ==
    /\ ~terminated /\ ~alive[o] /\ cls = "Device"
    /\ \E n \in GenAnswers(W) :
          Apply(Device_open(W, o, n), Op("open", o, 0))

Gen(o) ==
    /\ ~terminated /\ alive[o] /\ cls \in ALClasses
    /\ \E n \in genAnswers(cls, W, o) :
          Apply(gen(cls, W, o, n), Op("gen", o, 0))

Destroy(o) ==
    /\ ~terminated /\ alive[o] /\ cls \in ALClasses
    /\ Apply(destroy(cls, W, o), Op("destroy", o, 0))

MoveConstruct(o, src) ==
    /\ ~terminated /\ ~alive[o] /\ alive[src] /\ cls \in Movable
    /\ Apply(IF cls = "Device" THEN Device_moveConstruct(W, o, src)
                               ELSE moveConstruct(W, o, src),
             Op("moveConstruct", o, src))

\* a = std::move(b); b may be a itself.
MoveAssign(o, src) ==
    /\ ~terminated /\ alive[o] /\ alive[src] /\ cls \in Movable
    /\ Apply(IF cls = "Device" THEN Device_moveAssign(W, o, src)
                               ELSE moveAssign(cls, W, o, src),
             Op("moveAssign", o, src))

Destruct(o) ==
    /\ ~terminated /\ alive[o]
    /\ Apply(IF cls = "Device" THEN Device_destruct(W, o)
                               ELSE destruct(cls, W, o),
             Op("destruct", o, 0))

Next ==
    \/ \E o \in Objs : Construct(o)
    \/ \E o \in Objs : ConstructWith(o)
    \/ \E o \in Objs : Open(o)
    \/ \E o \in Objs : Gen(o)
    \/ \E o \in Objs : Destroy(o)
    \/ \E o, src \in Objs : MoveConstruct(o, src)
    \/ \E o, src \in Objs : MoveAssign(o, src)
    \/ \E o \in Objs : Destruct(o)

Spec == Init /\ [][Next]_vars

\* ------------------------------------------------ Context state machine

InitCtx ==
    /\ InitCommon /\ NoFormatCall
    /\ cls = "Device"

\* Context(nullptr) in dead storage.
CtxConstruct(c) ==
    /\ ~terminated /\ ~ctxAlive[c]
    /\ Apply([W EXCEPT !.ctxAlive[c] = TRUE, !.ctx[c] = 0],
             Op("Context", c, 0))

\* Context(std::move(options)) in dead storage.
CtxConstructWith(c) ==
    /\ ~terminated /\ ~ctxAlive[c]
    /\ \E a \in initAnswers([W EXCEPT !.ctx[c] = 0], c) :
          Apply(Context_construct(W, c, a[1], a[2]), Op("Context(Options)", c, 0))

\* c.init(std::move(options)).
CtxInit(c) ==
    /\ ~terminated /\ ctxAlive[c]
    /\ \E a \in initAnswers(W, c) :
          Apply(Context_init(W, c, a[1], a[2]), Op("init", c, 0))

\* c.close().
CtxClose(c) ==
    /\ ~terminated /\ ctxAlive[c]
    /\ Apply(Context_close(W, c), Op("close", c, 0))

\* ~Context().
CtxDestruct(c) ==
    /\ ~terminated /\ ctxAlive[c]
    /\ Apply(Context_destruct(W, c), Op("~Context", c, 0))

\* options.device = Device(name).
OptionsSetDevice ==
    /\ ~terminated
    /\ \E n \in GenAnswers(W) :
          Apply(Options_setDevice(W, n), Op("options.device", 0, 0))

NextCtx ==
    \/ \E c \in Ctxs : CtxConstruct(c)
    \/ \E c \in Ctxs : CtxConstructWith(c)
    \/ \E c \in Ctxs : CtxInit(c)
    \/ \E c \in Ctxs : CtxClose(c)
    \/ \E c \in Ctxs : CtxDestruct(c)
    \/ OptionsSetDevice

SpecCtx == InitCtx /\ [][NextCtx]_vars

\* -------------------------------------------------- claims on the Context

\* C2: the handle of a Context within its lifetime is non-null if and only
\* if it names a driver context created and not yet destroyed; after
\* close() returns the Context holds a null handle.
C2_ContextHandleDenotesLiveContext ==
    \A c \in Ctxs : (ctxAlive[c] /\ ~terminated) =>
        /\ mContext[c] # 0 =>
               (ctxDevice[mContext[c]] # 0 /\ destroyCalls[mContext[c]] = 0)
        /\ (lastOp.op = "close" /\ lastOp.obj = c) => mContext[c] = 0

\* C8: over any sequence of init(), close() and destruction of Contexts,
\* each driver context is destroyed at most once and each device is closed
\* at most once.
C8_DestroyedAndClosedAtMostOnce ==
    \A n \in Names : destroyCalls[n] <= 1 /\ delCalls[n] <= 1

\* C9: every device init() opened or took over from Options is closed by
\* the time the Context has been destroyed.
C9_DeviceClosedWithContext ==
    \A c \in Ctxs : (~ctxAlive[c] /\ ~terminated) => owned[c] = {}

\* C17: closing or destroying a Context whose context is not the driver's
\* current one leaves the driver's current context as it was.
C17_CloseKeepsCurrent ==
    [][(/\ lastOp'.op \in {"close", "~Context"}
        /\ current # 0
        /\ mContext[lastOp'.obj] # current
        /\ ~terminated')
       => current' = current]_vars

\* ------------------------------------------- error-check state machine

InitErr ==
    /\ InitCommon /\ NoFormatCall
    /\ cls = "Buffer"

\* The program calls wrapped operation op.
Call(op) ==
    /\ ~terminated
    /\ \E fail \in Failures(op) :
          Apply(callOp(W, op, fail), Op(op.name, 0, 0))

NextErr == \E op \in WrappedOps : Call(op)

SpecErr == InitErr /\ [][NextErr]_vars

\* ------------------------------------------- claims on the error handling

\* C6: every wrapped operation that calls the driver checks the driver's
\* last-error code after each of its calls, before it returns.
C6_EveryCallChecked ==
    (opResult.calls > 0 /\ opResult.outcome = "returned")
        => opResult.unchecked = 0

\* C7: when the error check reads a non-success code, the operation ends in
\* a thrown error delivered to the caller, carrying the name of that code
\* and the line of the call site.
C7_ErrorDeliveredToCaller ==
    opResult.read # "none" =>
        /\ opResult.outcome = "thrown"
        /\ opResult.what.code = opResult.read
        /\ \E op \in WrappedOps : \E i \in 1..Len(op.calls) :
              op.name = opResult.name /\ op.calls[i].line = opResult.what.line

\* C11: an AL error the check of an operation reads was caused by a driver
\* call of that operation: whenever the check reads a non-success AL code,
\* the driver's last-error code was clear when the operation started.
C11_ErrorCausedAtCallSite ==
    [][opResult'.read \in ALErrors => alError = "AL_NO_ERROR"]_vars

\* ------------------------------------------------- Format state machine

InitFmt ==
    /\ InitCommon
    /\ cls = "Buffer"
    /\ fmtArgs \in [fmt : FormatValues, channels : 0..MaxChannels]
    /\ fmtRes = NoFmtRes
    /\ fmtFrom = NoFmtRes

\* MultiChannelFormat(fmtArgs.fmt, fmtArgs.channels).
CallMultiChannelFormat ==
    /\ LET r == MultiChannelFormat(fmtArgs.fmt, fmtArgs.channels)
       IN  fmtRes' = [NoFmtRes EXCEPT !.fn = "MultiChannelFormat",
                                      !.arg = fmtArgs,
                                      !.error = r.error, !.fmt = r.fmt]
    /\ UNCHANGED <<checking, terminated, alError, alcError, wrapVars, ctxVars,
                   opResult, fmtArgs, fmtFrom, extVars>>

\* DecomposeFormat(fmtArgs.fmt, &mono, &channels), or with a null pointer
\* for either result.
CallDecomposeFormat(wantMono, wantChannels) ==
    /\ LET r == DecomposeFormat(fmtArgs.fmt)
       IN  fmtRes' = [NoFmtRes EXCEPT
                         !.fn = "DecomposeFormat",
                         !.arg = [fmtArgs EXCEPT !.channels = 0],
                         !.error = r.error,
                         !.mono = IF wantMono THEN r.mono ELSE "none",
                         !.channels = IF wantChannels THEN r.channels ELSE 0]
    /\ UNCHANGED <<checking, terminated, alError, alcError, wrapVars, ctxVars,
                   opResult, fmtArgs, fmtFrom, extVars>>

\* The program passes what the last call produced to the next call.
PassOn ==
    /\ fmtRes.error = "none"
    /\ \/ /\ fmtRes.fn = "MultiChannelFormat"
          /\ fmtArgs' = [fmtArgs EXCEPT !.fmt = fmtRes.fmt]
       \/ /\ fmtRes.fn = "DecomposeFormat"
          /\ fmtRes.mono # "none" /\ fmtRes.channels # 0
          /\ fmtArgs' = [fmt |-> fmtRes.mono, channels |-> fmtRes.channels]
    /\ fmtFrom' = fmtRes
    /\ UNCHANGED <<checking, terminated, alError, alcError, wrapVars, ctxVars,
                   opResult, fmtRes, extVars>>

NextFmt ==
    \/ CallMultiChannelFormat
    \/ \E wantMono, wantChannels \in BOOLEAN :
          CallDecomposeFormat(wantMono, wantChannels)
    \/ PassOn

SpecFmt == InitFmt /\ [][NextFmt]_vars

\* ----------------------------------------------------- claims on Format

\* The sample type and the channel count a Format value names.
SampleType(f) ==
    CASE f \in {"Mono8", "Stereo8"} -> "8"
      [] f \in {"Mono16", "Stereo16"} -> "16"
      [] f \in {"MonoF32", "StereoF32"} -> "F32"
      [] OTHER -> "none"

ChannelsOf(f) ==
    IF f \in MonoFormats THEN 1 ELSE IF f \in StereoFormats THEN 2 ELSE 0

\* C10: MultiChannelFormat(mono, channels) reports an error whenever mono is
\* not one of the mono formats, for every channel count, and whenever
\* channels is neither 1 nor 2; otherwise it returns the format with the
\* same sample type and the requested channel count.
C10_MultiChannelFormatChecksArguments ==
    fmtRes.fn = "MultiChannelFormat" =>
        IF fmtRes.arg.fmt \notin MonoFormats \/ fmtRes.arg.channels \notin {1, 2}
        THEN fmtRes.error # "none"
        ELSE /\ fmtRes.error = "none"
             /\ SampleType(fmtRes.fmt) = SampleType(fmtRes.arg.fmt)
             /\ ChannelsOf(fmtRes.fmt) = fmtRes.arg.channels

\* C19: for every mono format m and channel count c in {1, 2},
\* DecomposeFormat(MultiChannelFormat(m, c)) yields mono = m and channels =
\* c; for every one of the six formats f, MultiChannelFormat applied to the
\* mono format and channel count DecomposeFormat(f) yields returns f.
C19_FormatRoundTrip ==
    /\ (/\ fmtFrom.fn = "MultiChannelFormat"
        /\ fmtFrom.arg.fmt \in MonoFormats
        /\ fmtFrom.arg.channels \in {1, 2}
        /\ fmtRes.fn = "DecomposeFormat"
        /\ fmtRes.arg.fmt = fmtFrom.fmt)
           => /\ fmtRes.error = "none"
              /\ fmtRes.mono \in {"none", fmtFrom.arg.fmt}
              /\ fmtRes.channels \in {0, fmtFrom.arg.channels}
    /\ (/\ fmtFrom.fn = "DecomposeFormat"
        /\ fmtFrom.arg.fmt \in Formats
        /\ fmtRes.fn = "MultiChannelFormat"
        /\ fmtRes.arg = [fmt |-> fmtFrom.mono, channels |-> fmtFrom.channels])
           => /\ fmtRes.error = "none"
              /\ fmtRes.fmt = fmtFrom.arg.fmt

\* C19's case: MultiChannelFormat(MonoF32, 2) was decomposed, both results
\* asked for, and gave MonoF32 and 2.
C19_Witness ==
    /\ fmtFrom.fn = "MultiChannelFormat"
    /\ fmtFrom.arg = [fmt |-> "MonoF32", channels |-> 2]
    /\ fmtRes.fn = "DecomposeFormat"
    /\ fmtRes.arg.fmt = fmtFrom.fmt
    /\ fmtRes.mono = "MonoF32" /\ fmtRes.channels = 2

\* ------------------------------------------------ claims on the wrappers

\* A name is a live resource: generated, and not passed to delete since.
Live(n) == n \in live /\ delCalls[n] = 0

\* C1: for every owning AL wrapper (Buffer, Source, Filter, Effect,
\* AuxiliaryEffectsSlot) within its lifetime, the handle is non-zero if and
\* only if it names a driver resource generated and not yet deleted.
C1_HandleDenotesLiveResource ==
    cls \in ALClasses =>
        \A o \in Objs : alive[o] =>
            /\ mHandle[o] # 0 => Live(mHandle[o])
            /\ mHandle[o] = 0 => mHandle[o] \notin live

\* C1's case: a move assignment handed a live resource to an object while
\* another object holds the null handle, some resource having been deleted.
C1_Witness ==
    /\ cls \in ALClasses /\ lastOp.op = "moveAssign"
    /\ mHandle[lastOp.obj] \in live
    /\ mHandle[lastOp.src] = 0
    /\ \E n \in Names : delCalls[n] = 1

\* C3: no resource generated through an AL wrapper is passed to the driver's
\* delete call twice, every live resource is held by a wrapper that will
\* release it, and once all wrappers are destroyed no resource is left.
C3_AutomaticRelease ==
    cls \in ALClasses =>
        /\ \A n \in Names : delCalls[n] <= 1
        /\ \A n \in live : \E o \in Objs : alive[o] /\ mHandle[o] = n
        /\ (\A o \in Objs : ~alive[o]) => live = {}

\* C3's case: all wrappers destroyed, the last by a destructor that deleted
\* the resource it held.
C3_Witness ==
    /\ cls \in ALClasses /\ lastOp.op = "destruct"
    /\ \A o \in Objs : ~alive[o]
    /\ \A n \in Names : delCalls[n] = 1
    /\ live = {}

\* C4: a = std::move(b) and move construction of a from b, a and b distinct
\* objects of Buffer, Source or Device: a holds the handle b held, b holds
\* null, the resource a held has been released exactly once and the
\* transferred one has not been released.
C4_MoveTransfersOwnership ==
    [][(/\ lastOp'.op \in {"moveAssign", "moveConstruct"}
        /\ lastOp'.obj # lastOp'.src
        /\ ~terminated')
       => LET a == lastOp'.obj
              b == lastOp'.src
          IN  /\ mHandle'[a] = mHandle[b]
              /\ mHandle'[b] = 0
              /\ (lastOp'.op = "moveAssign" /\ mHandle[a] # 0)
                     => mHandle[a] \notin live' /\ delCalls'[mHandle[a]] = 1
              /\ mHandle[b] # 0
                     => mHandle[b] \in live' /\ delCalls'[mHandle[b]] = 0]_vars

\* C5: no two distinct owning wrappers of the same kind within their
\* lifetime hold the same non-null handle.
C5_UniqueOwnership ==
    \A o1, o2 \in Objs :
        (o1 # o2 /\ alive[o1] /\ alive[o2] /\ mHandle[o1] # 0)
            => mHandle[o1] # mHandle[o2]

\* C16: a = std::move(a) on a Buffer, Source or Device leaves a holding the
\* handle it held and leaves the resource of that handle live: not deleted,
\* not closed.
C16_SelfMoveKeepsResource ==
    [][(/\ lastOp'.op = "moveAssign"
        /\ lastOp'.obj = lastOp'.src
        /\ ~terminated')
       => LET a == lastOp'.obj
          IN  /\ mHandle'[a] = mHandle[a]
              /\ mHandle[a] \in live => mHandle[a] \in live'
              /\ mHandle[a] # 0 => delCalls'[mHandle[a]] = delCalls[mHandle[a]]]_vars

\* ----------------------------------------------------- EFX state machine

\* The state the member functions of the EFX views act on.
E == [err |-> alError, term |-> terminated, live |-> efxLive,
      value |-> efxValue, call |-> efxCall]

\* The step to state s of the EFX views.
ApplyEfx(s) ==
    /\ alError' = s.err
    /\ terminated' = s.term
    /\ efxLive' = s.live
    /\ efxValue' = s.value
    /\ efxCall' = s.call
    /\ UNCHANGED <<checking, alcError, wrapVars, ctxVars, opResult, fmtVars,
                   queueVars, offsetVars, optVars, viewVars>>

InitEfx ==
    /\ InitCommon /\ NoFormatCall
    /\ cls = "Effect"

\* Effect e; e.gen() and the like; the wrapper lives on to the end of the run.
EfxGen(k) ==
    /\ ~terminated
    /\ \E n \in {0} \cup (Names \ efxLive[k]) :
          ApplyEfx([Efx_gen(E, k, n) EXCEPT
              !.call = [NoEfxCall EXCEPT !.fn = "gen", !.handle = n]])

EffectSet(h) ==
    /\ ~terminated
    /\ \E ty \in {"i", "f"}, v \in Values : ApplyEfx(EffectView_set(E, h, ty, v))

FilterSet(h) ==
    /\ ~terminated
    /\ \E ty \in {"i", "f"}, v \in Values : ApplyEfx(FilterView_set(E, h, ty, v))

EffectGeti(h) ==
    /\ ~terminated
    /\ \E junk \in Values : ApplyEfx(EffectView_geti(E, h, junk))

EffectGetf(h) ==
    /\ ~terminated
    /\ \E junk \in Values : ApplyEfx(EffectView_getf(E, h, junk))

NextEfx ==
    \/ \E k \in {"Effect", "Filter"} : EfxGen(k)
    \/ \E h \in Handles : EffectSet(h)
    \/ \E h \in Handles : FilterSet(h)
    \/ \E h \in Handles : EffectGeti(h)
    \/ \E h \in Handles : EffectGetf(h)

SpecEfx == InitEfx /\ [][NextEfx]_vars

\* C12: EffectView::geti(p) and getf(p) on the handle of a live effect
\* return the value of parameter p of that effect, the value last written
\* by EffectView::set(p, v) on the handle.
C12_EffectGetReadsEffect ==
    (/\ efxCall.fn \in {"EffectView::geti", "EffectView::getf"}
     /\ efxCall.handle \in efxLive["Effect"]
     /\ ~terminated)
        => efxCall.result =
              efxValue["Effect"][efxCall.handle]
                      [IF efxCall.fn = "EffectView::geti" THEN "i" ELSE "f"]

\* Slot, effect and filter handles passed through the views.
SlotEffect(h, e) ==
    /\ ~terminated
    /\ ApplyEfx(AuxiliaryEffectsSlotView_effect(E, h, e))

AuxiliarySendFilter(slot, filter) ==
    /\ ~terminated
    /\ ApplyEfx(SourceView_auxiliary_send_filter(E, slot, filter))

NextSend ==
    \/ \E k \in EfxKinds : EfxGen(k)
    \/ \E h, e \in Handles : SlotEffect(h, e)
    \/ \E slot, filter \in Handles : AuxiliarySendFilter(slot, filter)

SpecSend == InitEfx /\ [][NextSend]_vars

\* C13: AuxiliaryEffectsSlotView::effect(e) passes the handle held by e to
\* the driver, and SourceView::auxiliary_send_filter(i, slot, filter) the
\* handles held by slot and filter, whatever their values.
C13_ViewsPassTheirHandles ==
    efxCall.fn \in {"AuxiliaryEffectsSlotView::effect",
                    "SourceView::auxiliary_send_filter"}
        => efxCall.passed = efxCall.args

\* ------------------------------------------- streaming queue state machine

\* The state the queue functions of the SourceView act on.
Q == [err |-> alError, term |-> terminated, queue |-> srcQueue,
      processed |-> srcProcessed, state |-> srcState, pending |-> srcPending]

\* The step to state s, made by the queue call named fn that returned result
\* where the program expected expect; pre is the state before the call.
ApplyQueue(s, fn, result, expect, pre) ==
    /\ alError' = s.err
    /\ terminated' = s.term
    /\ srcQueue' = s.queue
    /\ srcProcessed' = s.processed
    /\ srcState' = s.state
    /\ srcPending' = s.pending
    /\ queueCall' = [fn |-> fn, result |-> result, expect |-> expect,
                     before |-> [queued |-> buffers_queued(pre),
                                 processed |-> buffers_processed(pre)],
                     after |-> [queued |-> buffers_queued(s),
                                processed |-> buffers_processed(s)]]
    /\ UNCHANGED <<checking, alcError, wrapVars, ctxVars, opResult, fmtVars,
                   efxVars, offsetVars, optVars, viewVars>>

InitQueue ==
    /\ InitCommon /\ NoFormatCall
    /\ cls = "Source"

QueueBuffer ==
    /\ ~terminated /\ Len(srcQueue) < MaxQueue
    /\ \E buf \in Names, accept \in BOOLEAN :
          ApplyQueue(SourceView_queueBuffer(Q, buf, accept), "queueBuffer",
                     <<>>, <<>>, Q)

QueueBuffers ==
    /\ ~terminated /\ Len(srcQueue) + 2 <= MaxQueue
    /\ \E b1, b2 \in Names, accept \in BOOLEAN :
          ApplyQueue(SourceView_queueBuffers(Q, <<b1, b2>>, accept),
                     "queueBuffers", <<>>, <<>>, Q)

\* b = source.unqueueBuffer(); a call made with a processed buffer takes
\* the oldest buffer off the list of those queued.
UnqueueBuffer ==
    /\ ~terminated
    /\ LET r == SourceView_unqueueBuffer(Q)
           got == srcProcessed >= 1
       IN  ApplyQueue([r.state EXCEPT !.pending = IF got THEN Tail(@) ELSE @],
                      "unqueueBuffer", <<r.result>>,
                      IF srcPending = <<>> THEN <<>> ELSE <<Head(srcPending)>>,
                      Q)

\* source.unqueueBuffers(array, 2).
UnqueueBuffers ==
    /\ ~terminated
    /\ LET r == SourceView_unqueueBuffers(Q, 2)
           got == srcProcessed >= 2
       IN  ApplyQueue([r.state EXCEPT !.pending = IF got THEN Drop(@, 2) ELSE @],
                      "unqueueBuffers", r.result,
                      Take(srcPending, Min(2, Len(srcPending))), Q)

Play ==
    /\ ~terminated
    /\ ApplyQueue(SourceView_play(Q), "play", <<>>, <<>>, Q)

Stop ==
    /\ ~terminated
    /\ ApplyQueue(SourceView_stop(Q), "stop", <<>>, <<>>, Q)

\* The driver finishes playing the buffer at the playback position; after
\* the last one the source is stopped.
Process ==
    /\ ~terminated /\ srcState = "Playing"
    /\ srcProcessed' = srcProcessed + 1
    /\ srcState' = IF srcProcessed + 1 = Len(srcQueue) THEN "Stopped"
                                                       ELSE "Playing"
    /\ UNCHANGED <<checking, terminated, alError, alcError, wrapVars, ctxVars,
                   opResult, fmtVars, efxVars, offsetVars, optVars, viewVars,
                   srcQueue, srcPending, queueCall>>

NextQueue ==
    \/ QueueBuffer
    \/ QueueBuffers
    \/ UnqueueBuffer
    \/ UnqueueBuffers
    \/ Play
    \/ Stop
    \/ Process

SpecQueue == InitQueue /\ [][NextQueue]_vars

\* C14: when buffers_processed() > 0, unqueueBuffer() returns the view of
\* the oldest buffer queued and not yet unqueued and lowers buffers_queued()
\* and buffers_processed() by one each; buffers_processed() never exceeds
\* buffers_queued().
C14_QueueIsFifo ==
    /\ buffers_processed(Q) <= buffers_queued(Q)
    /\ (/\ queueCall.fn = "unqueueBuffer"
        /\ queueCall.before.processed > 0
        /\ ~terminated)
           => /\ queueCall.result = queueCall.expect
              /\ queueCall.expect # <<>>
              /\ queueCall.after.queued = queueCall.before.queued - 1
              /\ queueCall.after.processed = queueCall.before.processed - 1

\* C14's case: buffer 2 was queued, then buffer 1; with only the older one
\* processed, unqueueBuffer() has returned buffer 2 and left buffer 1 queued.
C14_Witness ==
    /\ queueCall.fn = "unqueueBuffer"
    /\ queueCall.before.processed = 1 /\ queueCall.before.queued = 2
    /\ queueCall.result = <<2>>
    /\ srcPending = <<1>>
    /\ ~terminated

\* ------------------------------------------ playback offset state machine

\* The state the offset functions of the SourceView act on.
O == [err |-> alError, term |-> terminated, offset |-> srcOffset,
      wanted |-> offsetSet, call |-> offsetCall]

ApplyOffset(s) ==
    /\ alError' = s.err
    /\ terminated' = s.term
    /\ srcOffset' = s.offset
    /\ offsetSet' = s.wanted
    /\ offsetCall' = s.call
    /\ UNCHANGED <<checking, alcError, wrapVars, ctxVars, opResult, fmtVars,
                   efxVars, queueVars, optVars, viewVars>>

InitOffset ==
    /\ InitCommon /\ NoFormatCall
    /\ cls = "Source"

\* source.sample_offset(v), source.byte_offset(v).
SetOffset(prop) ==
    /\ ~terminated
    /\ \E v \in SizeT : ApplyOffset(SourceView_set_offset(O, prop, v))

\* source.sample_offset(), source.byte_offset().
GetOffset(prop) ==
    /\ ~terminated
    /\ ApplyOffset(SourceView_get_offset(O, prop))

NextOffset ==
    \/ \E prop \in OffsetProps : SetOffset(prop)
    \/ \E prop \in OffsetProps : GetOffset(prop)

SpecOffset == InitOffset /\ [][NextOffset]_vars

\* C15: sample_offset(v) and byte_offset(v) hand the driver the value v for
\* every size_t value v, and the getter returns the v last set.
C15_OffsetPassedUnchanged ==
    /\ offsetCall.fn = "set" => offsetCall.passed = offsetCall.arg
    /\ (offsetCall.fn = "get" /\ ~terminated)
           => offsetCall.result = offsetSet[offsetCall.prop]

\* ------------------------------------------ Context::Options state machine

InitOpt ==
    /\ InitCommon /\ NoFormatCall
    /\ cls = "Device"

\* Context::Options o; in place of the old one.
NewOptions ==
    /\ ~terminated
    /\ options' = Options_construct
    /\ optAdded' = <<>>
    /\ optMoved' = FALSE
    /\ UNCHANGED <<checking, terminated, alError, alcError, wrapVars, ctxVars,
                   opResult, fmtVars, efxVars, queueVars, offsetVars, viewVars>>

\* o.add(values) on an Options that holds its vector.
Add ==
    /\ ~terminated /\ ~optMoved
    /\ \E values \in SeqsOf(AttrValues, 0, MaxList) :
          /\ Len(optAdded) + Len(values) <= MaxAdded
          /\ options' = Options_add(options, values)
          /\ optAdded' = optAdded \o values
    /\ UNCHANGED <<checking, terminated, alError, alcError, wrapVars, ctxVars,
                   opResult, fmtVars, efxVars, queueVars, offsetVars, viewVars,
                   optMoved>>

\* context.init(std::move(o)): the parameter is move-constructed from o,
\* which is left with an empty vector.
MoveOptions ==
    /\ ~terminated /\ ~optMoved
    /\ options' = <<>>
    /\ optMoved' = TRUE
    /\ UNCHANGED <<checking, terminated, alError, alcError, wrapVars, ctxVars,
                   opResult, fmtVars, efxVars, queueVars, offsetVars, viewVars,
                   optAdded>>

\* o.add(values) on a moved-from Options: options.begin() + 0 - 1 lies
\* before the array, the insert is undefined behaviour: the program ends, or
\* the vector holds anything afterwards.
AddToMovedFrom ==
    /\ ~terminated /\ optMoved
    /\ \/ terminated' = TRUE /\ UNCHANGED options
       \/ /\ options' \in SeqsOf(AttrValues, 0, MaxList)
          /\ UNCHANGED terminated
    /\ UNCHANGED <<checking, alError, alcError, wrapVars, ctxVars, opResult,
                   fmtVars, efxVars, queueVars, offsetVars, viewVars, optAdded,
                   optMoved>>

NextOpt ==
    \/ NewOptions
    \/ Add
    \/ MoveOptions
    \/ AddToMovedFrom

SpecOpt == InitOpt /\ [][NextOpt]_vars

\* C18: after any sequence of add() calls on a constructed Options, get()
\* returns all added values in the order they were added, followed by one
\* terminating 0 as the last element; with no add() call it is the single
\* element 0.
C18_OptionsListTerminated ==
    (~optMoved /\ ~terminated) =>
        /\ Options_get(options) = optAdded \o <<0>>
        /\ Len(Options_get(options)) = Len(optAdded) + 1
        /\ optAdded = <<>> => Options_get(options) = <<0>>

\* C18's case: two add() calls, the second after the first, with a 0 among
\* the added values.
C18_Witness ==
    /\ ~optMoved /\ ~terminated
    /\ optAdded = <<1, 0, 2>>
    /\ Options_get(options) = <<1, 0, 2, 0>>

\* ------------------------------------------------------ view state machine

\* The state the member functions of owning wrappers and views act on.
WV == [f \in DOMAIN W \cup {"va", "vh"} |->
          IF f = "va" THEN viewAlive ELSE IF f = "vh" THEN viewHandle ELSE W[f]]

\* The step to state s of wrappers and views, performed by operation op.
ApplyView(s, op) ==
    /\ mHandle' = s.h
    /\ alive' = s.alive
    /\ live' = s.live
    /\ delCalls' = s.dels
    /\ alError' = s.err
    /\ alcError' = s.alcErr
    /\ terminated' = s.term
    /\ owned' = s.owned
    /\ viewAlive' = s.va
    /\ viewHandle' = s.vh
    /\ lastOp' = op
    /\ UNCHANGED <<checking, cls, ctxAlive, mContext, optDevice, ctxDevice,
                   current, destroyCalls, opResult, fmtVars, efxVars, queueVars,
                   offsetVars, optVars>>

ViewOps == {"View(handle)", "View(view)", "View(wrapper)", "view = view",
            "view = wrapper", "~View"}

\* BufferView v(handle) and the like, for any handle value.
ViewConstruct ==
    /\ ~terminated /\ ~viewAlive
    /\ \E handle \in Handles :
          ApplyView(View_construct(WV, handle), Op("View(handle)", 0, 0))

\* BufferView v = BufferView(handle): the temporary is constructed, copied
\* and destroyed.
ViewCopy ==
    /\ ~terminated /\ ~viewAlive
    /\ \E handle \in Handles :
          ApplyView(View_copy(WV, handle), Op("View(view)", 0, 0))

\* BufferView v = buffer: the copy constructor, from the view part of
\* owning wrapper o.
ViewOfWrapper(o) ==
    /\ ~terminated /\ ~viewAlive /\ alive[o]
    /\ ApplyView(View_copy(WV, mHandle[o]), Op("View(wrapper)", 0, o))

\* v = BufferView(handle), and v = v (handle the one v holds).
ViewAssign ==
    /\ ~terminated /\ viewAlive
    /\ \E handle \in Handles :
          ApplyView(View_assign(WV, handle), Op("view = view", 0, 0))

\* v = buffer.
ViewAssignWrapper(o) ==
    /\ ~terminated /\ viewAlive /\ alive[o]
    /\ ApplyView(View_assign(WV, mHandle[o]), Op("view = wrapper", 0, o))

\* The view goes out of scope; src notes the handle it held.
ViewDestruct ==
    /\ ~terminated /\ viewAlive
    /\ ApplyView(View_destruct(WV), Op("~View", 0, viewHandle))

NextView ==
    \/ \E o \in Objs : Construct(o)
    \/ \E o \in Objs : Open(o)
    \/ \E o \in Objs : Gen(o)
    \/ \E o \in Objs : Destruct(o)
    \/ ViewConstruct
    \/ ViewCopy
    \/ \E o \in Objs : ViewOfWrapper(o)
    \/ ViewAssign
    \/ \E o \in Objs : ViewAssignWrapper(o)
    \/ ViewDestruct

SpecView == Init /\ [][NextView]_vars

\* C20: constructing, copying, assigning or destroying a view issues no
\* driver generate, delete or close call and changes the handle of no
\* owning wrapper; a resource is released only by an operation of an
\* owning class.
C20_ViewsAreNonOwning ==
    [][/\ lastOp'.op \in ViewOps
          => UNCHANGED <<mHandle, alive, live, delCalls, alError, alcError,
                         terminated>>
       /\ (live' # live \/ delCalls' # delCalls)
          => lastOp'.op \in {"gen", "open", "destruct"}]_vars

\* C20's case: a view that held the handle of a live resource, the handle
\* an owning wrapper still holds, has just been destroyed.
C20_Witness ==
    /\ lastOp.op = "~View"
    /\ lastOp.src \in live
    /\ \E o \in Objs : alive[o] /\ mHandle[o] = lastOp.src

====
